---- MODULE Spec2Model ----
(***************************************************************************)
(* Resource lifecycle of azurerm_stream_analytics_job (Create/Update, Read, *)
(* Delete, Import) against a remote management API, and the acceptance-    *)
(* test existence check of the Service Fabric managed cluster.             *)
(*                                                                         *)
(* A handler blocks on every API call; each call is one step, and the job  *)
(* may be changed outside the provider between any two of them.            *)
(*                                                                         *)
(* A Go pointer is modelled as a sequence of length at most one: <<>> is   *)
(* nil and <<v>> points at v.  An identifier string is modelled as the     *)
(* sequence of its path segments; the empty identifier "" is <<>>.         *)
(***************************************************************************)
EXTENDS Integers, Sequences, FiniteSets, TLC

VARIABLES d_id, d, origin, remote, run, last, ex

vars == <<d_id, d, origin, remote, run, last, ex>>

(* ------------------------------ bounds -------------------------------- *)

\* Desired configurations are the variants 0..MaxVariant of Cfg below.
MaxVariant == 3

\* The existence check sees the status codes 200..200+SuccessSpan and
\* 400..400+ClientSpan, besides 500 and no response at all.
SuccessSpan == 4

ClientSpan == 4

(* ----------------------------- pointers ------------------------------- *)

Nil == <<>>

Ptr(v) == <<v>>

IsNil(p) == p = <<>>

Deref(p) == p[1]

\* d.Set(key, p) with p a *string: a nil pointer stores the zero value.
SetStringPtr(p) == IF IsNil(p) THEN "" ELSE Deref(p)

\* int32(x) and back int(y).  The schema admits delays in -1..1814399 and
\* streaming units up to 120, which 32 bits hold: no value is changed.
Int32(x) == x

(* ---------------------------- identifiers ----------------------------- *)

SubscriptionId == "sub1"

\* A subscription other than the one the provider is configured with.
OtherSubscriptionId == "sub2"

ResourceGroups == {"rg1"}

Names == {"jobA"}

\* parse.NewStreamingJobID
NewStreamingJobID(sub, rg, name) ==
  [SubscriptionId |-> sub, ResourceGroup |-> rg, Name |-> name]

\* StreamingJobId.ID(): the canonical encoding.
StreamingJobIDString(id) ==
  << "subscriptions", id.SubscriptionId, "resourceGroups", id.ResourceGroup,
     "providers", "Microsoft.StreamAnalytics", "streamingjobs", id.Name >>

\* parse.StreamingJobID: <<>> when the string is malformed, else <<id>>.
ParseStreamingJobID(s) ==
  IF /\ Len(s) = 8
     /\ s[1] = "subscriptions" /\ s[3] = "resourceGroups"
     /\ s[5] = "providers" /\ s[6] = "Microsoft.StreamAnalytics"
     /\ s[7] = "streamingjobs"
     /\ s[2] # "" /\ s[4] # "" /\ s[8] # ""
  THEN Ptr(NewStreamingJobID(s[2], s[4], s[8]))
  ELSE Nil

\* azure.NormalizeLocation: lower case, spaces removed.
NormalizeLocation(l) ==
  CASE l = "West Europe" -> "westeurope"
    [] l = "East US" -> "eastus"
    [] OTHER -> l

(* ------------------------- desired configuration ---------------------- *)

Odd(v) == v % 2 = 1

High(v) == (v \div 2) % 2 = 1

\* A configuration as the orchestrator hands it over: schema defaults are
\* applied, an optional attribute that is not supplied holds its zero value.
Cfg(n, v) ==
  [ name |-> n,
    resource_group_name |-> "rg1",
    location |-> IF Odd(v) THEN "West Europe" ELSE "westeurope",
    stream_analytics_cluster_id |-> IF Odd(v) THEN "cluster1" ELSE "",
    compatibility_level |-> IF High(v) THEN "1.1" ELSE "",
    data_locale |-> IF High(v) THEN "en-US" ELSE "",
    events_late_arrival_max_delay_in_seconds |->
      CASE v % 3 = 0 -> 5 [] v % 3 = 1 -> -1 [] OTHER -> 60,
    events_out_of_order_max_delay_in_seconds |->
      CASE v % 3 = 0 -> 0 [] v % 3 = 1 -> 10 [] OTHER -> 599,
    events_out_of_order_policy |-> IF Odd(v) THEN "Drop" ELSE "Adjust",
    output_error_policy |-> IF High(v) THEN "Stop" ELSE "Drop",
    streaming_units |-> CASE v % 3 = 0 -> 1 [] v % 3 = 1 -> 3 [] OTHER -> 6,
    transformation_query |-> IF High(v) THEN "SELECT 2" ELSE "SELECT 1",
    identity |-> IF Odd(v) THEN <<"SystemAssigned">> ELSE <<>>,
    tags |-> IF Odd(v) THEN {<<"env", "prod">>} ELSE {} ]

Configs == {Cfg(n, v) : n \in Names, v \in 0..MaxVariant}

\* The attributes of a resource that is not in state.
EmptyState ==
  [ name |-> "", resource_group_name |-> "", location |-> "",
    stream_analytics_cluster_id |-> "", compatibility_level |-> "",
    data_locale |-> "",
    events_late_arrival_max_delay_in_seconds |-> 0,
    events_out_of_order_max_delay_in_seconds |-> 0,
    events_out_of_order_policy |-> "", output_error_policy |-> "",
    streaming_units |-> 0, transformation_query |-> "",
    identity |-> <<>>, job_id |-> "", tags |-> {} ]

\* What d.Get returns inside Create/Update: the configuration, and for a
\* Computed attribute that the configuration leaves out, the prior state.
PlanFor(cfg, state) ==
  [ name |-> cfg.name,
    resource_group_name |-> cfg.resource_group_name,
    location |-> cfg.location,
    stream_analytics_cluster_id |-> cfg.stream_analytics_cluster_id,
    compatibility_level |->
      IF cfg.compatibility_level # "" THEN cfg.compatibility_level
      ELSE state.compatibility_level,
    data_locale |->
      IF cfg.data_locale # "" THEN cfg.data_locale ELSE state.data_locale,
    events_late_arrival_max_delay_in_seconds |->
      cfg.events_late_arrival_max_delay_in_seconds,
    events_out_of_order_max_delay_in_seconds |->
      cfg.events_out_of_order_max_delay_in_seconds,
    events_out_of_order_policy |-> cfg.events_out_of_order_policy,
    output_error_policy |-> cfg.output_error_policy,
    streaming_units |-> cfg.streaming_units,
    transformation_query |-> cfg.transformation_query,
    identity |->
      IF cfg.identity = <<>> THEN <<>>
      ELSE << [ type |-> cfg.identity[1],
                tenant_id |->
                  IF state.identity = <<>> THEN ""
                  ELSE state.identity[1].tenant_id,
                principal_id |->
                  IF state.identity = <<>> THEN ""
                  ELSE state.identity[1].principal_id ] >>,
    job_id |-> state.job_id,
    tags |-> cfg.tags ]

(* ------------------------- request construction ----------------------- *)

\* tags.Expand: every value becomes a pointer to its string.
TagsExpand(t) == {<<p[1], Ptr(p[2])>> : p \in t}

\* tags.Flatten: entries whose value is nil are left out.
TagsFlatten(m) ==
  IF IsNil(m) THEN {}
  ELSE {<<p[1], Deref(p[2])>> : p \in {q \in Deref(m) : ~IsNil(q[2])}}

expandStreamAnalyticsJobIdentity(identity) ==
  Ptr([Type |-> Ptr(identity[1].type), TenantID |-> Nil, PrincipalID |-> Nil])

flattenStreamAnalyticsJobIdentity(identity) ==
  IF IsNil(identity) THEN <<>>
  ELSE << [ type |-> SetStringPtr(Deref(identity).Type),
            tenant_id |-> SetStringPtr(Deref(identity).TenantID),
            principal_id |-> SetStringPtr(Deref(identity).PrincipalID) ] >>

\* The transformation built from the plan.  Properties is the embedded
\* *TransformationProperties, through which StreamingUnits and Query are
\* reached.
BuildTransformation(p) ==
  [ Name |-> Ptr("main"),
    Properties |-> Ptr([ StreamingUnits |-> Ptr(Int32(p.streaming_units)),
                         Query |-> Ptr(p.transformation_query) ]) ]

\* A request that leaves the cluster block out when no cluster is given.
PropsClusterOmitted(p) ==
  IF p.stream_analytics_cluster_id # ""
  THEN Ptr([ID |-> Ptr(p.stream_analytics_cluster_id)])
  ELSE Nil


PropsCluster(p) ==
  IF p.stream_analytics_cluster_id # ""
  THEN Ptr([ID |-> Ptr(p.stream_analytics_cluster_id)])
  ELSE Ptr([ID |-> Nil])

\* A request that never carries the data locale.
PropsDataLocaleDropped(p) == Nil


PropsDataLocale(p) ==
  IF p.data_locale # "" THEN Ptr(p.data_locale) ELSE Nil

PropsIdentity(p) ==
  IF p.identity # <<>> THEN expandStreamAnalyticsJobIdentity(p.identity)
  ELSE Nil

\* The StreamingJob sent by Create and by Update (the transformation is
\* added by the create path only).
BuildProps(p, id) ==
  [ ID |-> Nil,
    Name |-> Ptr(id.Name),
    Location |-> Ptr(NormalizeLocation(p.location)),
    Identity |-> PropsIdentity(p),
    Properties |-> Ptr(
      [ Sku |-> Ptr("Standard"),
        CompatibilityLevel |-> p.compatibility_level,
        DataLocale |-> PropsDataLocale(p),
        EventsLateArrivalMaxDelayInSeconds |->
          Ptr(Int32(p.events_late_arrival_max_delay_in_seconds)),
        EventsOutOfOrderMaxDelayInSeconds |->
          Ptr(Int32(p.events_out_of_order_max_delay_in_seconds)),
        EventsOutOfOrderPolicy |-> p.events_out_of_order_policy,
        OutputErrorPolicy |-> p.output_error_policy,
        Cluster |-> PropsCluster(p),
        JobID |-> Nil,
        Transformation |-> Nil ]),
    Tags |-> Ptr(TagsExpand(p.tags)) ]

WithTransformation(props, t) ==
  [props EXCEPT !.Properties =
     Ptr([Deref(props.Properties) EXCEPT !.Transformation = Ptr(t)])]

(* --------------------------- the remote API --------------------------- *)

Keys == ResourceGroups \X Names

\* The zero StreamingJob an SDK call returns beside an error.
ZeroJob ==
  [ ID |-> Nil, Name |-> Nil, Location |-> Nil, Identity |-> Nil,
    Properties |-> Nil, Tags |-> Nil ]

ServerIdentity(i) ==
  IF IsNil(i) THEN Nil
  ELSE Ptr([ Type |-> Deref(i).Type, TenantID |-> Ptr("tenant1"),
             PrincipalID |-> Ptr("principal1") ])

\* The job the service holds after CreateOrReplace: the payload, plus the
\* fields the server assigns.
StoredJob(payload, rg, name) ==
  [ payload EXCEPT
      !.ID = Ptr(StreamingJobIDString(NewStreamingJobID(SubscriptionId, rg, name))),
      !.Identity = ServerIdentity(payload.Identity),
      !.Properties =
        IF IsNil(payload.Properties) THEN Nil
        ELSE Ptr([Deref(payload.Properties) EXCEPT !.JobID = Ptr("jobid1")]) ]

MergePtr(old, new) == IF IsNil(new) THEN old ELSE new

MergeString(old, new) == IF new = "" THEN old ELSE new

\* PATCH of the job: a field the payload leaves out keeps its value; the
\* transformation is a sub-resource of its own and is not patched here.
PatchedJob(old, payload) ==
  [ ID |-> old.ID,
    Name |-> MergePtr(old.Name, payload.Name),
    Location |-> MergePtr(old.Location, payload.Location),
    Identity |->
      IF IsNil(payload.Identity) THEN old.Identity
      ELSE ServerIdentity(payload.Identity),
    Properties |->
      IF IsNil(payload.Properties) THEN old.Properties
      ELSE IF IsNil(old.Properties)
      THEN Ptr([Deref(payload.Properties) EXCEPT !.Transformation = Nil])
      ELSE LET o == Deref(old.Properties)
               n == Deref(payload.Properties)
           IN  Ptr(
             [ Sku |-> MergePtr(o.Sku, n.Sku),
               CompatibilityLevel |->
                 MergeString(o.CompatibilityLevel, n.CompatibilityLevel),
               DataLocale |-> MergePtr(o.DataLocale, n.DataLocale),
               EventsLateArrivalMaxDelayInSeconds |->
                 MergePtr(o.EventsLateArrivalMaxDelayInSeconds,
                          n.EventsLateArrivalMaxDelayInSeconds),
               EventsOutOfOrderMaxDelayInSeconds |->
                 MergePtr(o.EventsOutOfOrderMaxDelayInSeconds,
                          n.EventsOutOfOrderMaxDelayInSeconds),
               EventsOutOfOrderPolicy |->
                 MergeString(o.EventsOutOfOrderPolicy, n.EventsOutOfOrderPolicy),
               OutputErrorPolicy |->
                 MergeString(o.OutputErrorPolicy, n.OutputErrorPolicy),
               Cluster |-> MergePtr(o.Cluster, n.Cluster),
               JobID |-> o.JobID,
               Transformation |-> o.Transformation ]),
    Tags |-> MergePtr(old.Tags, payload.Tags) ]

\* Whether the service holds a transformation for the job.
TransformationPresent(j) ==
  /\ ~IsNil(j)
  /\ ~IsNil(Deref(j).Properties)
  /\ ~IsNil(Deref(Deref(j).Properties).Transformation)

MergedTransformationProperties(old, new) ==
  IF IsNil(new) THEN old
  ELSE IF IsNil(old) THEN new
  ELSE Ptr([ StreamingUnits |->
               MergePtr(Deref(old).StreamingUnits, Deref(new).StreamingUnits),
             Query |-> MergePtr(Deref(old).Query, Deref(new).Query) ])

\* PATCH of the transformation sub-resource.
PatchedTransformation(job, t) ==
  LET o == Deref(Deref(job.Properties).Transformation)
  IN  [ job EXCEPT !.Properties =
          Ptr([ Deref(job.Properties) EXCEPT !.Transformation =
                  Ptr([ Name |-> o.Name,
                        Properties |->
                          MergedTransformationProperties(o.Properties,
                                                         t.Properties) ]) ]) ]

\* What a Get returns for a job the service holds: the transformation is
\* part of the response only when its expansion is asked for.
Expanded(job, expand) ==
  IF expand = "transformation" \/ IsNil(job.Properties) THEN job
  ELSE [job EXCEPT !.Properties =
          Ptr([Deref(job.Properties) EXCEPT !.Transformation = Nil])]

\* How the environment treats one call: "truth" answers from the remote
\* state and "fail" is a transport or server failure (status 500).
CallEnvs == {"truth", "fail"}

\* JobsClient.Get
ApiGet(rem, rg, name, expand, env) ==
  IF env = "fail"
  THEN [err |-> TRUE, status |-> 500, job |-> ZeroJob]
  ELSE IF IsNil(rem[<<rg, name>>])
  THEN [err |-> TRUE, status |-> 404, job |-> ZeroJob]
  ELSE [ err |-> FALSE, status |-> 200,
         job |-> Expanded(Deref(rem[<<rg, name>>]), expand) ]

\* The outcome of a call that changes a job the service must hold.
MutationOutcome(present, env) ==
  IF env = "fail" THEN "error" ELSE IF present THEN "ok" ELSE "notfound"

\* utils.ResponseWasNotFound
ResponseWasNotFound(resp) == resp.status = 404

Outcome(resp) ==
  IF ~resp.err THEN "ok"
  ELSE IF ResponseWasNotFound(resp) THEN "notfound" ELSE "error"

\* One entry of the log of API calls an operation has issued.
Call(api, rg, name, expand, body, outcome) ==
  [ api |-> api, rg |-> rg, name |-> name, expand |-> expand, body |-> body,
    outcome |-> outcome ]

(* ------------------------------- errors ------------------------------- *)

NoErr == [cause |-> "none", op |-> "", id |-> <<>>]

\* fmt.Errorf("<op> %s: %+v", id, err)
Wrapped(op, id, cause) ==
  [cause |-> cause, op |-> op, id |-> StreamingJobIDString(id)]

\* return err
Bare(cause) == [cause |-> cause, op |-> "", id |-> <<>>]

\* tf.ImportAsExistsError
ImportAsExistsError(existingId) ==
  [cause |-> "exists", op |-> "import", id |-> existingId]

(* -------------------------------- Read -------------------------------- *)

ReadLocation(dat, job) ==
  IF ~IsNil(job.Location) THEN NormalizeLocation(Deref(job.Location))
  ELSE dat.location

ReadDataLocale(dat, props) == SetStringPtr(props.DataLocale)

ReadEventsLateArrival(dat, props) ==
  IF ~IsNil(props.EventsLateArrivalMaxDelayInSeconds)
  THEN Deref(props.EventsLateArrivalMaxDelayInSeconds)
  ELSE dat.events_late_arrival_max_delay_in_seconds

ReadEventsOutOfOrder(dat, props) ==
  IF ~IsNil(props.EventsOutOfOrderMaxDelayInSeconds)
  THEN Deref(props.EventsOutOfOrderMaxDelayInSeconds)
  ELSE dat.events_out_of_order_max_delay_in_seconds

ReadCluster(dat, props) ==
  IF ~IsNil(props.Cluster) THEN SetStringPtr(Deref(props.Cluster).ID)
  ELSE dat.stream_analytics_cluster_id

\* transformation.StreamingUnits and transformation.Query are reached
\* through the embedded *TransformationProperties: with a transformation
\* that has none, the first of them is a nil pointer dereference.
ReadPanics(job) ==
  /\ ~IsNil(job.Properties)
  /\ ~IsNil(Deref(job.Properties).Transformation)
  /\ IsNil(Deref(Deref(job.Properties).Transformation).Properties)

ReadStreamingUnits(dat, props) ==
  IF ~IsNil(props.Transformation)
     /\ ~IsNil(Deref(Deref(props.Transformation).Properties).StreamingUnits)
  THEN Deref(Deref(Deref(props.Transformation).Properties).StreamingUnits)
  ELSE dat.streaming_units

ReadQuery(dat, props) ==
  IF ~IsNil(props.Transformation)
  THEN SetStringPtr(Deref(Deref(props.Transformation).Properties).Query)
  ELSE dat.transformation_query

\* The d.Set calls of Read on a successful Get that does not panic.
ReadSet(dat, id, job) ==
  LET hasProps == ~IsNil(job.Properties)
      props == Deref(job.Properties)
  IN  [ name |-> id.Name,
        resource_group_name |-> id.ResourceGroup,
        location |-> ReadLocation(dat, job),
        identity |-> flattenStreamAnalyticsJobIdentity(job.Identity),
        compatibility_level |->
          IF hasProps THEN props.CompatibilityLevel ELSE dat.compatibility_level,
        data_locale |->
          IF hasProps THEN ReadDataLocale(dat, props) ELSE dat.data_locale,
        events_late_arrival_max_delay_in_seconds |->
          IF hasProps THEN ReadEventsLateArrival(dat, props)
          ELSE dat.events_late_arrival_max_delay_in_seconds,
        events_out_of_order_max_delay_in_seconds |->
          IF hasProps THEN ReadEventsOutOfOrder(dat, props)
          ELSE dat.events_out_of_order_max_delay_in_seconds,
        stream_analytics_cluster_id |->
          IF hasProps THEN ReadCluster(dat, props)
          ELSE dat.stream_analytics_cluster_id,
        events_out_of_order_policy |->
          IF hasProps THEN props.EventsOutOfOrderPolicy
          ELSE dat.events_out_of_order_policy,
        output_error_policy |->
          IF hasProps THEN props.OutputErrorPolicy ELSE dat.output_error_policy,
        job_id |-> IF hasProps THEN SetStringPtr(props.JobID) ELSE dat.job_id,
        streaming_units |->
          IF hasProps THEN ReadStreamingUnits(dat, props) ELSE dat.streaming_units,
        transformation_query |->
          IF hasProps THEN ReadQuery(dat, props) ELSE dat.transformation_query,
        tags |-> TagsFlatten(job.Tags) ]

\* How a handler ends: the identifier and attributes of its ResourceData,
\* whether it returned nil ("ok"), an error, or panicked, and the calls it
\* has issued.
Returned(did, dat, calls) ==
  [id |-> did, d |-> dat, result |-> "ok", err |-> NoErr, calls |-> calls]

\* An early return with an error.
Failed(did, dat, err, calls) ==
  [id |-> did, d |-> dat, result |-> "error", err |-> err, calls |-> calls]

\* A nil pointer dereference: the provider process panics.
Panicked(did, dat, calls) ==
  [ id |-> did, d |-> dat, result |-> "panic", err |-> Bare("panic"),
    calls |-> calls ]

\* A Read for which not found is an error like any other.
ReadGetFailedStrict(did, dat, id, resp, calls) ==
  Failed(did, dat, Wrapped("retrieving", id, "api"), calls)

\* Read's handling of a failed Get: not found clears the identifier and is
\* no error, anything else is returned wrapped.
ReadGetFailed(did, dat, id, resp, calls) ==
  IF ResponseWasNotFound(resp) THEN Returned(<<>>, dat, calls)
  ELSE Failed(did, dat, Wrapped("retrieving", id, "api"), calls)

\* resourceStreamAnalyticsJobRead on the identifier did and attributes dat.
resourceStreamAnalyticsJobRead(did, dat, rem, env) ==
  LET parsed == ParseStreamingJobID(did)
  IN  IF IsNil(parsed) THEN Failed(did, dat, Bare("parse"), <<>>)
      ELSE
        LET id == Deref(parsed)
            resp == ApiGet(rem, id.ResourceGroup, id.Name, "transformation", env)
            log == << Call("Jobs.Get", id.ResourceGroup, id.Name,
                           "transformation", Nil, Outcome(resp)) >>
        IN  IF resp.err THEN ReadGetFailed(did, dat, id, resp, log)
            ELSE IF ReadPanics(resp.job) THEN Panicked(did, dat, log)
            ELSE Returned(did, ReadSet(dat, id, resp.job), log)

(* ---------------------------- Create/Update --------------------------- *)

\* A probe that reports failures and adopts a job it finds.
ProbeErrorAdopting(id, probe) ==
  IF probe.err /\ ~ResponseWasNotFound(probe)
  THEN Ptr(Wrapped("checking for presence of existing", id, "api"))
  ELSE Nil

\* The existence probe of the create path: <<>> to go on, else <<err>>.
ProbeError(id, probe) ==
  IF probe.err /\ ~ResponseWasNotFound(probe)
  THEN Ptr(Wrapped("checking for presence of existing", id, "api"))
  ELSE IF ~IsNil(probe.job.ID) /\ Deref(probe.job.ID) # <<>>
  THEN Ptr(ImportAsExistsError(Deref(probe.job.ID)))
  ELSE Nil

\* A Create that persists the identifier in another spelling.
CreatedIdLowerCase(id) ==
  << "subscriptions", id.SubscriptionId, "resourcegroups", id.ResourceGroup,
     "providers", "Microsoft.StreamAnalytics", "streamingjobs", id.Name >>

\* The identifier Create persists once the job is created.
CreatedId(id) == StreamingJobIDString(id)

\* Whether the update path goes on to update the transformation.
HasReadTransformation(job) == ~IsNil(Deref(job.Properties).Transformation)

\* The identifier the handler builds from the plan and addresses its calls
\* with.
UpdateAddress(plan) ==
  NewStreamingJobID(SubscriptionId, plan.resource_group_name, plan.name)

(* ----------------------- ClusterResource.Exists ----------------------- *)

ClusterNames == {"clusterA", "clusterB", "clusterC"}

ManagedClusterIDString(rg, name) ==
  << "subscriptions", SubscriptionId, "resourceGroups", rg, "providers",
     "Microsoft.ServiceFabric", "managedClusters", name >>

\* managedcluster.ParseManagedClusterID: <<>> when the string is malformed.
ParseManagedClusterID(s) ==
  IF /\ Len(s) = 8
     /\ s[1] = "subscriptions" /\ s[3] = "resourceGroups"
     /\ s[5] = "providers" /\ s[6] = "Microsoft.ServiceFabric"
     /\ s[7] = "managedClusters"
     /\ s[2] # "" /\ s[4] # "" /\ s[8] # ""
  THEN Ptr([SubscriptionId |-> s[2], ResourceGroup |-> s[4], Name |-> s[8]])
  ELSE Nil

\* The identifiers a test state may hold: canonical ones, and malformed ones.
StateIds ==
  {ManagedClusterIDString(rg, n) : rg \in ResourceGroups, n \in ClusterNames}
  \cup { <<>>,
         <<"subscriptions", SubscriptionId, "resourceGroups", "rg1">>,
         StreamingJobIDString(NewStreamingJobID(SubscriptionId, "rg1", "jobA")),
         ManagedClusterIDString("rg1", "") }

StatusCodes ==
  {0, 500} \cup {200 + i : i \in 0..SuccessSpan} \cup {400 + i : i \in 0..ClientSpan}

\* What ManagedClusterClient.Get may return: a status outside 2xx, and no
\* response at all (status 0), come with an error; a 2xx response may come
\* with one (a body that does not decode).
GetResults ==
  {r \in [status : StatusCodes, err : BOOLEAN] :
     (r.status < 200 \/ r.status > 299) => r.err}

\* response.WasNotFound
WasNotFound(r) == r.status = 404

\* An existence check that takes every answer without error for the cluster.
ExistsValueAny(r) == r.status >= 200

\* utils.Bool(resp.HttpResponse.StatusCode == 200)
ExistsValue(r) == r.status = 200

\* ClusterResource.Exists: value is the *bool returned, err whether an
\* error is returned, gets the number of Get calls issued.
Exists(stateId, r) ==
  IF IsNil(ParseManagedClusterID(stateId))
  THEN [value |-> Nil, err |-> TRUE, gets |-> 0]
  ELSE IF r.err
  THEN IF WasNotFound(r) THEN [value |-> Ptr(FALSE), err |-> FALSE, gets |-> 1]
       ELSE [value |-> Nil, err |-> TRUE, gets |-> 1]
  ELSE [value |-> Ptr(ExistsValue(r)), err |-> FALSE, gets |-> 1]

(* ------------------------- out-of-band changes ------------------------ *)

JobId(key) ==
  Ptr(StreamingJobIDString(NewStreamingJobID(SubscriptionId, key[1], key[2])))

\* A job made outside the provider, every field present.
FullJob(key) ==
  [ ID |-> JobId(key), Name |-> Ptr(key[2]), Location |-> Ptr("East US"),
    Identity |-> Ptr([ Type |-> Ptr("SystemAssigned"), TenantID |-> Ptr("tenant2"),
                       PrincipalID |-> Ptr("principal2") ]),
    Properties |-> Ptr(
      [ Sku |-> Ptr("Standard"), CompatibilityLevel |-> "1.0",
        DataLocale |-> Ptr("de-DE"),
        EventsLateArrivalMaxDelayInSeconds |-> Ptr(7),
        EventsOutOfOrderMaxDelayInSeconds |-> Ptr(3),
        EventsOutOfOrderPolicy |-> "Adjust", OutputErrorPolicy |-> "Stop",
        Cluster |-> Ptr([ID |-> Ptr("cluster2")]), JobID |-> Ptr("jobid2"),
        Transformation |->
          Ptr([ Name |-> Ptr("main"),
                Properties |-> Ptr([ StreamingUnits |-> Ptr(12),
                                     Query |-> Ptr("SELECT 9") ]) ]) ]),
    Tags |-> Ptr({<<"owner", Ptr("ops")>>, <<"empty", Nil>>}) ]

\* A job whose blocks are present and whose optional fields are absent.
SparseJob(key) ==
  [ ID |-> JobId(key), Name |-> Ptr(key[2]), Location |-> Nil, Identity |-> Nil,
    Properties |-> Ptr(
      [ Sku |-> Nil, CompatibilityLevel |-> "", DataLocale |-> Nil,
        EventsLateArrivalMaxDelayInSeconds |-> Nil,
        EventsOutOfOrderMaxDelayInSeconds |-> Nil,
        EventsOutOfOrderPolicy |-> "", OutputErrorPolicy |-> "",
        Cluster |-> Ptr([ID |-> Nil]), JobID |-> Nil,
        Transformation |->
          Ptr([ Name |-> Nil,
                Properties |-> Ptr([StreamingUnits |-> Nil, Query |-> Nil]) ]) ]),
    Tags |-> Nil ]

\* A job whose transformation has a name and no properties.
HollowJob(key) ==
  [ FullJob(key) EXCEPT !.Properties =
      Ptr([Deref(FullJob(key).Properties) EXCEPT !.Transformation =
             Ptr([Name |-> Ptr("main"), Properties |-> Nil])]) ]

\* A job without a transformation and without a cluster block.
PlainJob(key) ==
  [ FullJob(key) EXCEPT !.Properties =
      Ptr([Deref(FullJob(key).Properties) EXCEPT !.Cluster = Nil,
                                                 !.Transformation = Nil]) ]

\* A job whose properties block is absent.
BareJob(key) ==
  [ ID |-> JobId(key), Name |-> Ptr(key[2]), Location |-> Nil, Identity |-> Nil,
    Properties |-> Nil, Tags |-> Nil ]

ExternalJobs(key) ==
  { Nil, Ptr(FullJob(key)), Ptr(SparseJob(key)), Ptr(HollowJob(key)),
    Ptr(PlainJob(key)), Ptr(BareJob(key)) }

\* The identifiers handed to an import: the job's in the provider's
\* subscription and in another one, and a malformed one.
ImportIds ==
  {StreamingJobIDString(NewStreamingJobID(s, k[1], k[2])) :
     s \in {SubscriptionId, OtherSubscriptionId}, k \in Keys}
  \cup {<<"subscriptions", SubscriptionId, "resourceGroups", "rg1">>}

(* ------------------------------- state -------------------------------- *)

\* d_id    the persisted identifier (<<>> when the resource is not in state)
\* d       the attributes in state
\* origin  which operation persisted the identifier
\* remote  the jobs the service holds, by resource group and name
\* run     the handler that is in flight: its operation, the call it is
\*         about to issue, its configuration and plan, the calls issued so
\*         far and its ResourceData (identifier and attributes)
\* last    the report of the last handler that has ended
\* ex      the last existence check of the acceptance test

Idle ==
  [ op |-> "none", pc |-> "idle", cfg |-> Nil, plan |-> Nil, calls |-> <<>>,
    id |-> <<>>, d |-> EmptyState ]

NoReport ==
  [ op |-> "none", result |-> "ok", err |-> NoErr, calls |-> <<>>, id |-> <<>>,
    cfg |-> Nil, plan |-> Nil, addr |-> <<>> ]

\* The report while a handler is in flight.
Running == [NoReport EXCEPT !.op = "running"]

Report(op, r, cfg, plan) ==
  [ op |-> op, result |-> r.result, err |-> r.err, calls |-> r.calls,
    id |-> r.id, cfg |-> cfg, plan |-> plan,
    addr |-> IF IsNil(plan) THEN <<>>
             ELSE StreamingJobIDString(UpdateAddress(Deref(plan))) ]

NoCheck == [id |-> <<>>, get |-> [status |-> 0, err |-> TRUE], out |-> Nil]

Init ==
  /\ d_id = <<>>
  /\ d = EmptyState
  /\ origin = "none"
  /\ remote = [k \in Keys |-> Nil]
  /\ run = Idle
  /\ last = NoReport
  /\ ex = NoCheck

\* Whether the orchestrator saves the ResourceData of a handler that ended
\* with r: not after a panic, and not after an import that failed.
Saved(op, r) == r.result # "panic" /\ ~(op = "import" /\ r.result = "error")

\* The handler in flight ends with r.  The orchestrator saves its
\* ResourceData, drops the resource after a successful Delete, and drops a
\* resource without identifier.
Finish(op, r, cfg, plan) ==
  LET newId == IF ~Saved(op, r) THEN d_id
               ELSE IF op = "delete" /\ r.result = "ok" THEN <<>>
               ELSE r.id
  IN  /\ d_id' = newId
      /\ d' = IF newId = <<>> THEN EmptyState
              ELSE IF Saved(op, r) THEN r.d ELSE d
      /\ origin' = IF newId = <<>> THEN "none"
                   ELSE IF Saved(op, r) /\ op \in {"create", "import"} THEN op
                   ELSE origin
      /\ run' = Idle
      /\ last' = Report(op, r, cfg, plan)

\* The handler in flight goes on to its next call.
Proceed(op, pc, cfg, plan, calls, did, dat) ==
  /\ run' = [ op |-> op, pc |-> pc, cfg |-> cfg, plan |-> plan,
              calls |-> calls, id |-> did, d |-> dat ]
  /\ last' = Running
  /\ UNCHANGED <<d_id, d, origin>>

\* Create: resourceStreamAnalyticsJobCreateUpdate with d.IsNewResource(),
\* up to the answer of the existence probe.
Create ==
  \E cfg \in Configs, env \in CallEnvs :
    /\ run.pc = "idle"
    /\ d_id = <<>>
    /\ LET plan == PlanFor(cfg, EmptyState)
           id == UpdateAddress(plan)
           probe == ApiGet(remote, id.ResourceGroup, id.Name, "", env)
           c1 == << Call("Jobs.Get", id.ResourceGroup, id.Name, "", Nil,
                         Outcome(probe)) >>
           perr == ProbeError(id, probe)
       IN  IF ~IsNil(perr)
           THEN Finish("create", Failed(<<>>, plan, Deref(perr), c1),
                       Ptr(cfg), Ptr(plan))
           ELSE Proceed("create", "put", Ptr(cfg), Ptr(plan), c1, <<>>, plan)
    /\ UNCHANGED <<remote, ex>>

\* The create path from the probe's answer to the answer of CreateOrReplace.
CreateOrReplace ==
  \E env \in CallEnvs :
    /\ run.pc = "put"
    /\ LET plan == Deref(run.plan)
           id == UpdateAddress(plan)
           key == <<id.ResourceGroup, id.Name>>
           props == WithTransformation(BuildProps(plan, id),
                                       BuildTransformation(plan))
           c2 == run.calls \o
                   << Call("Jobs.CreateOrReplace", key[1], key[2], "", Ptr(props),
                           IF env = "fail" THEN "error" ELSE "ok") >>
       IN  IF env = "fail"
           THEN /\ Finish("create",
                          Failed(run.id, run.d, Wrapped("creating", id, "api"), c2),
                          run.cfg, run.plan)
                /\ remote' = remote
           ELSE /\ Proceed("create", "wait", run.cfg, run.plan, c2, run.id, run.d)
                /\ remote' = [remote EXCEPT
                                ![key] = Ptr(StoredJob(props, key[1], key[2]))]
    /\ UNCHANGED ex

\* The wait for the creation, and d.SetId once it has succeeded.
CreateWait ==
  \E env \in CallEnvs :
    /\ run.pc = "wait"
    /\ LET plan == Deref(run.plan)
           id == UpdateAddress(plan)
           c3 == run.calls \o
                   << Call("Future.Wait", id.ResourceGroup, id.Name, "", Nil,
                           IF env = "fail" THEN "error" ELSE "ok") >>
       IN  IF env = "fail"
           THEN Finish("create",
                       Failed(run.id, run.d,
                              Wrapped("waiting for creation of", id, "api"), c3),
                       run.cfg, run.plan)
           ELSE Proceed("create", "read", run.cfg, run.plan, c3, CreatedId(id),
                        run.d)
    /\ UNCHANGED <<remote, ex>>

\* Update: the same handler on a resource in state, up to the answer of the
\* jobs Update.  name and resource_group_name are ForceNew: a change of
\* either is never an Update.
Update ==
  \E cfg \in Configs, env \in CallEnvs :
    /\ run.pc = "idle"
    /\ d_id # <<>>
    /\ cfg.name = d.name
    /\ cfg.resource_group_name = d.resource_group_name
    /\ LET plan == PlanFor(cfg, d)
           id == UpdateAddress(plan)
           key == <<id.ResourceGroup, id.Name>>
           props == BuildProps(plan, id)
           outcome == MutationOutcome(~IsNil(remote[key]), env)
           c1 == <<Call("Jobs.Update", key[1], key[2], "", Ptr(props), outcome)>>
       IN  IF outcome # "ok"
           THEN /\ Finish("update",
                          Failed(d_id, plan, Wrapped("updating", id, "api"), c1),
                          Ptr(cfg), Ptr(plan))
                /\ remote' = remote
           ELSE /\ Proceed("update", "mid", Ptr(cfg), Ptr(plan), c1, d_id, plan)
                /\ remote' = [remote EXCEPT
                                ![key] = Ptr(PatchedJob(Deref(remote[key]), props))]
    /\ UNCHANGED ex

\* The update path from the jobs Update to the answer of the Get that looks
\* for the transformation.
UpdateGet ==
  \E env \in CallEnvs :
    /\ run.pc = "mid"
    /\ LET plan == Deref(run.plan)
           id == UpdateAddress(plan)
           got == ApiGet(remote, id.ResourceGroup, id.Name, "transformation", env)
           c2 == run.calls \o
                   << Call("Jobs.Get", id.ResourceGroup, id.Name,
                           "transformation", Nil, Outcome(got)) >>
       IN  IF got.err
           THEN Finish("update", Failed(run.id, run.d, Bare("api"), c2),
                       run.cfg, run.plan)
           ELSE IF IsNil(got.job.Properties)
           THEN Finish("update", Panicked(run.id, run.d, c2), run.cfg, run.plan)
           ELSE IF ~HasReadTransformation(got.job)
           THEN Proceed("update", "read", run.cfg, run.plan, c2, run.id, run.d)
           ELSE IF IsNil(Deref(Deref(got.job.Properties).Transformation).Name)
           THEN Finish("update", Panicked(run.id, run.d, c2), run.cfg, run.plan)
           ELSE Proceed("update", "tupd", run.cfg, run.plan, c2, run.id, run.d)
    /\ UNCHANGED <<remote, ex>>

\* The transformations Update.
UpdateTransformation ==
  \E env \in CallEnvs :
    /\ run.pc = "tupd"
    /\ LET plan == Deref(run.plan)
           id == UpdateAddress(plan)
           key == <<id.ResourceGroup, id.Name>>
           t == BuildTransformation(plan)
           outcome == MutationOutcome(TransformationPresent(remote[key]), env)
           c3 == run.calls \o
                   <<Call("Transformations.Update", key[1], key[2], "", Ptr(t),
                          outcome)>>
       IN  IF outcome # "ok"
           THEN /\ Finish("update",
                          Failed(run.id, run.d,
                                 Wrapped("updating transformation for", id, "api"),
                                 c3),
                          run.cfg, run.plan)
                /\ remote' = remote
           ELSE /\ Proceed("update", "read", run.cfg, run.plan, c3, run.id, run.d)
                /\ remote' = [remote EXCEPT
                                ![key] = Ptr(PatchedTransformation(
                                               Deref(remote[key]), t))]
    /\ UNCHANGED ex

\* return resourceStreamAnalyticsJobRead(d, meta) of Create/Update, and the
\* Read the orchestrator runs on an imported identifier.
ThenRead ==
  \E env \in CallEnvs :
    /\ run.pc = "read"
    /\ LET r == resourceStreamAnalyticsJobRead(run.id, run.d, remote, env)
       IN  Finish(run.op, [r EXCEPT !.calls = run.calls \o r.calls],
                  run.cfg, run.plan)
    /\ UNCHANGED <<remote, ex>>

\* Read: a refresh of the resource in state.
Read ==
  \E env \in CallEnvs :
    /\ run.pc = "idle"
    /\ d_id # <<>>
    /\ Finish("read", resourceStreamAnalyticsJobRead(d_id, d, remote, env),
              Nil, Nil)
    /\ UNCHANGED <<remote, ex>>

(* ------------------------------- Delete ------------------------------- *)

\* resourceStreamAnalyticsJobDelete up to the answer of the jobs Delete.
\* Deleting a job that is not there is a success of the service.
Delete ==
  \E env \in CallEnvs :
    /\ run.pc = "idle"
    /\ d_id # <<>>
    /\ LET parsed == ParseStreamingJobID(d_id)
           id == Deref(parsed)
           key == <<id.ResourceGroup, id.Name>>
           c1 == << Call("Jobs.Delete", key[1], key[2], "", Nil,
                         IF env = "fail" THEN "error" ELSE "ok") >>
       IN  IF IsNil(parsed)
           THEN /\ Finish("delete", Failed(d_id, d, Bare("parse"), <<>>), Nil, Nil)
                /\ remote' = remote
           ELSE IF env = "fail"
           THEN /\ Finish("delete",
                          Failed(d_id, d, Wrapped("deleting", id, "api"), c1),
                          Nil, Nil)
                /\ remote' = remote
           ELSE /\ Proceed("delete", "dwait", Nil, Nil, c1, d_id, d)
                /\ remote' = [remote EXCEPT ![key] = Nil]
    /\ UNCHANGED ex

\* The wait for the deletion.
DeleteWait ==
  \E env \in CallEnvs :
    /\ run.pc = "dwait"
    /\ LET id == Deref(ParseStreamingJobID(run.id))
           c2 == run.calls \o
                   << Call("Future.Wait", id.ResourceGroup, id.Name, "", Nil,
                           IF env = "fail" THEN "error" ELSE "ok") >>
       IN  IF env = "fail"
           THEN Finish("delete",
                       Failed(run.id, run.d,
                              Wrapped("waiting for deletion of", id, "api"), c2),
                       Nil, Nil)
           ELSE Finish("delete", Returned(run.id, run.d, c2), Nil, Nil)
    /\ UNCHANGED <<remote, ex>>

(* ------------------------------- Import ------------------------------- *)

\* Importer: the identifier is validated by parse.StreamingJobID and set on
\* an empty ResourceData, which the orchestrator then has Read fill.
Import ==
  \E s \in ImportIds :
    /\ run.pc = "idle"
    /\ d_id = <<>>
    /\ IF IsNil(ParseStreamingJobID(s))
       THEN Finish("import", Failed(s, EmptyState, Bare("parse"), <<>>), Nil, Nil)
       ELSE Proceed("import", "read", Nil, Nil, <<>>, s, EmptyState)
    /\ UNCHANGED <<remote, ex>>

(* ----------------------------- environment ---------------------------- *)

\* A job is created, replaced or deleted outside the provider, between two
\* operations or between two calls of one.
External ==
  \E key \in Keys : \E j \in ExternalJobs(key) :
    /\ remote[key] # j
    /\ remote' = [remote EXCEPT ![key] = j]
    /\ last' = IF run.pc = "idle" THEN [NoReport EXCEPT !.op = "external"]
               ELSE last
    /\ UNCHANGED <<d_id, d, origin, run, ex>>

\* The resource is removed from state and the job is left in place.
Forget ==
  /\ run.pc = "idle"
  /\ d_id # <<>>
  /\ d_id' = <<>>
  /\ d' = EmptyState
  /\ origin' = "none"
  /\ last' = [NoReport EXCEPT !.op = "forget"]
  /\ UNCHANGED <<remote, run, ex>>

Next ==
  \/ Create \/ CreateOrReplace \/ CreateWait
  \/ Update \/ UpdateGet \/ UpdateTransformation
  \/ ThenRead \/ Read
  \/ Delete \/ DeleteWait
  \/ Import
  \/ External \/ Forget

Spec == Init /\ [][Next]_vars

\* The acceptance test's existence check, on any state identifier and any
\* answer of the service.
CheckExists ==
  \E s \in StateIds, r \in GetResults :
    /\ ex' = [id |-> s, get |-> r, out |-> Ptr(Exists(s, r))]
    /\ UNCHANGED <<d_id, d, origin, remote, run, last>>

NextExists == CheckExists

SpecExists == Init /\ [][NextExists]_vars

(* ------------------------------ properties ---------------------------- *)

PlanKey(p) == <<p.resource_group_name, p.name>>

IdKey(s) == <<Deref(ParseStreamingJobID(s)).ResourceGroup, Deref(ParseStreamingJobID(s)).Name>>

Apis(calls) == {calls[i].api : i \in DOMAIN calls}

MutatingApis ==
  {"Jobs.CreateOrReplace", "Jobs.Update", "Transformations.Update", "Jobs.Delete"}

NoMutatingCall(calls) == Apis(calls) \cap MutatingApis = {}

\* This step is the one in which a Create gets the answer of its probe.
CreateProbed ==
  /\ run.pc = "idle"
  /\ \/ run'.op = "create"
     \/ run'.pc = "idle" /\ last'.op = "create"

\* The plan of the Create that has just probed.
ProbedPlan == IF run'.op = "create" THEN Deref(run'.plan) ELSE Deref(last'.plan)

\* C1, as stated: a Create that probes while the candidate job exists
\* remotely fails with the already-exists conflict, issues no mutating call
\* and persists no identifier.
C1_CreateOnExistingConflicts ==
  [][ (CreateProbed /\ ~IsNil(remote[PlanKey(ProbedPlan)]))
      => /\ run'.pc = "idle"
         /\ last'.result = "error"
         /\ last'.err.cause = "exists"
         /\ NoMutatingCall(last'.calls)
         /\ d_id' = <<>> ]_vars

\* C1, amended: a Create that probes while the candidate job exists
\* remotely ends with the probe, in an error, with no mutating call issued,
\* no identifier persisted and the remote job untouched; the error is the
\* already-exists conflict, naming the existing job, when the probe returns
\* the job, and the wrapped presence-check error when the probe itself
\* fails.
C1_CreateOnExistingFails ==
  [][ (CreateProbed /\ ~IsNil(remote[PlanKey(ProbedPlan)]))
      => /\ run'.pc = "idle"
         /\ last'.result = "error"
         /\ NoMutatingCall(last'.calls)
         /\ Len(last'.calls) = 1
         /\ d_id' = <<>>
         /\ remote' = remote
         /\ last'.calls[1].outcome = "ok" =>
              last'.err = ImportAsExistsError(last'.addr)
         /\ last'.calls[1].outcome # "ok" =>
              /\ last'.calls[1].outcome = "error"
              /\ last'.err.cause = "api"
              /\ last'.err.op = "checking for presence of existing" ]_vars

\* A Create found the job that an earlier Create of the same configuration
\* name had stored, and was refused.
C1_Witness ==
  /\ last.op = "create"
  /\ last.err.cause = "exists"
  /\ d_id = <<>>
  /\ ~IsNil(remote[PlanKey(Deref(last.plan))])
  /\ remote[PlanKey(Deref(last.plan))] =
       Ptr(StoredJob(WithTransformation(
                       BuildProps(Deref(last.plan), UpdateAddress(Deref(last.plan))),
                       BuildTransformation(Deref(last.plan))),
                     Deref(last.plan).resource_group_name, Deref(last.plan).name))

\* This step is a Read of the resource in state.
ReadStep == run.pc = "idle" /\ run'.pc = "idle" /\ last'.op = "read"

\* C2: a Read whose Get answers not found returns no error and clears the
\* identifier; a Read whose Get fails otherwise returns an error and leaves
\* the identifier and every attribute as they were.
C2_ReadNotFoundClearsOtherErrorsKeep ==
  [][ (ReadStep /\ ~IsNil(ParseStreamingJobID(d_id)))
      => /\ Len(last'.calls) = 1
         /\ last'.calls[1].outcome = "notfound" =>
              (last'.result = "ok" /\ last'.err = NoErr /\ d_id' = <<>>)
         /\ last'.calls[1].outcome = "error" =>
              (last'.result = "error" /\ last'.err.cause = "api"
               /\ d_id' = d_id /\ d' = d) ]_vars

\* A Read found the job gone and dropped the identifier.
C2_Witness ==
  /\ last.op = "read"
  /\ last.calls[1].outcome = "notfound"
  /\ last.result = "ok"
  /\ d_id = <<>>

\* C3: an Update that returns success has issued a jobs Update and, after
\* it, a transformations Update carrying the desired streaming units and
\* query; no transformations Update comes before a successful jobs Update,
\* and none on the create path.
C3_UpdateIsTwoPhase ==
  /\ (last.op = "update" /\ last.result = "ok") =>
       \E i, j \in DOMAIN last.calls :
         /\ i < j
         /\ last.calls[i].api = "Jobs.Update"
         /\ last.calls[i].outcome = "ok"
         /\ last.calls[j].api = "Transformations.Update"
         /\ Deref(Deref(last.calls[j].body).Properties).StreamingUnits =
              Ptr(Deref(last.plan).streaming_units)
         /\ Deref(Deref(last.calls[j].body).Properties).Query =
              Ptr(Deref(last.plan).transformation_query)
  /\ \A j \in DOMAIN last.calls :
       last.calls[j].api = "Transformations.Update" =>
         \E i \in 1..(j - 1) :
           last.calls[i].api = "Jobs.Update" /\ last.calls[i].outcome = "ok"
  /\ last.op = "create" => "Transformations.Update" \notin Apis(last.calls)

IdentityType(identity) == IF identity = <<>> THEN <<>> ELSE <<identity[1].type>>

\* The attributes in state equal the configuration, attribute by attribute.
StateMatches(dat, cfg) ==
  /\ dat.name = cfg.name
  /\ dat.resource_group_name = cfg.resource_group_name
  /\ dat.location = NormalizeLocation(cfg.location)
  /\ dat.stream_analytics_cluster_id = cfg.stream_analytics_cluster_id
  /\ dat.compatibility_level = cfg.compatibility_level
  /\ dat.data_locale = cfg.data_locale
  /\ dat.events_late_arrival_max_delay_in_seconds =
       cfg.events_late_arrival_max_delay_in_seconds
  /\ dat.events_out_of_order_max_delay_in_seconds =
       cfg.events_out_of_order_max_delay_in_seconds
  /\ dat.events_out_of_order_policy = cfg.events_out_of_order_policy
  /\ dat.output_error_policy = cfg.output_error_policy
  /\ dat.streaming_units = cfg.streaming_units
  /\ dat.transformation_query = cfg.transformation_query
  /\ IdentityType(dat.identity) = cfg.identity
  /\ dat.tags = cfg.tags

\* The last operation was a Create that returned success, and the job its
\* Read got (the one the service holds as Read ends) is the one that
\* CreateOrReplace stored.
CreatedAndRead ==
  /\ last.op = "create"
  /\ last.result = "ok"
  /\ last.calls[Len(last.calls)].outcome = "ok"
  /\ remote[PlanKey(Deref(last.plan))] =
       Ptr(StoredJob(Deref(last.calls[2].body),
                     Deref(last.plan).resource_group_name, Deref(last.plan).name))

\* C4: after a successful Create whose Read gets the stored job, every
\* attribute that is not computed by the server equals its value in the
\* desired configuration (the location in normalized form).
C4_CreateThenReadRoundTrips ==
  CreatedAndRead => StateMatches(d, Deref(last.cfg))

\* A configuration with every optional attribute supplied was created and
\* read back.
C4_Witness ==
  /\ CreatedAndRead
  /\ Deref(last.cfg).stream_analytics_cluster_id # ""
  /\ Deref(last.cfg).data_locale # ""
  /\ Deref(last.cfg).identity # <<>>
  /\ Deref(last.cfg).location # NormalizeLocation(Deref(last.cfg).location)
  /\ d.job_id # ""

LocaleOf(job) ==
  IF IsNil(job.Properties) THEN Nil ELSE Deref(job.Properties).DataLocale

ClusterOf(job) ==
  IF IsNil(job.Properties) THEN Nil ELSE Deref(job.Properties).Cluster

CompatOf(job) ==
  IF IsNil(job.Properties) THEN "" ELSE Deref(job.Properties).CompatibilityLevel

\* This step is the one in which the jobs Update of an Update is applied:
\* remote is the job before it and remote' the job after it.
UpdateApplied == run.pc = "idle" /\ run'.op = "update"

\* C5, as stated: an Update leaves every optional field that the
\* configuration does not supply (cluster, data locale, identity) at the
\* value the remote job had before.
C5_UpdateKeepsUnsupplied ==
  [][ UpdateApplied =>
        LET cfg == Deref(run'.cfg)
            old == Deref(remote[PlanKey(Deref(run'.plan))])
            new == Deref(remote'[PlanKey(Deref(run'.plan))])
        IN  /\ cfg.stream_analytics_cluster_id = "" => ClusterOf(new) = ClusterOf(old)
            /\ cfg.data_locale = "" => LocaleOf(new) = LocaleOf(old)
            /\ cfg.identity = <<>> => new.Identity = old.Identity ]_vars

\* C5, amended: the jobs Update sends every attribute except an empty data
\* locale, an empty compatibility level and an absent identity, which it
\* leaves out and which keep their remote values (empty meaning that
\* neither the configuration nor, for the two Computed attributes, the
\* prior state holds a value); the cluster block and the tags are sent on
\* every Update, so a cluster that is not supplied is cleared and the tags
\* are replaced.
C5_UpdateKeepsOnlyOmitted ==
  [][ UpdateApplied =>
        LET plan == Deref(run'.plan)
            body == Deref(run'.calls[1].body)
            old == Deref(remote[PlanKey(plan)])
            new == Deref(remote'[PlanKey(plan)])
        IN  /\ plan.data_locale = "" =>
                 /\ IsNil(Deref(body.Properties).DataLocale)
                 /\ LocaleOf(new) = LocaleOf(old)
            /\ plan.data_locale # "" => LocaleOf(new) = Ptr(plan.data_locale)
            /\ plan.compatibility_level = "" => CompatOf(new) = CompatOf(old)
            /\ plan.identity = <<>> =>
                 (IsNil(body.Identity) /\ new.Identity = old.Identity)
            /\ ~IsNil(Deref(body.Properties).Cluster)
            /\ ClusterOf(new) =
                 Ptr([ID |-> IF plan.stream_analytics_cluster_id = "" THEN Nil
                             ELSE Ptr(plan.stream_analytics_cluster_id)])
            /\ new.Tags = Ptr(TagsExpand(plan.tags)) ]_vars

\* The jobs Update of a configuration without identity and cluster has just
\* been applied to a job that state knows with a cluster: the identity is
\* still there and the cluster is cleared.
C5_Witness ==
  /\ run.op = "update"
  /\ run.pc = "mid"
  /\ Deref(run.plan).identity = <<>>
  /\ Deref(run.plan).stream_analytics_cluster_id = ""
  /\ d.stream_analytics_cluster_id # ""
  /\ ~IsNil(remote[PlanKey(Deref(run.plan))])
  /\ ~IsNil(Deref(remote[PlanKey(Deref(run.plan))]).Identity)
  /\ ClusterOf(Deref(remote[PlanKey(Deref(run.plan))])) = Ptr([ID |-> Nil])

\* This step is one in which Read (of a refresh, of an import, or at the end
\* of Create/Update) gets the job from its Get.
ReadGotJob ==
  /\ run.pc \in {"idle", "read"}
  /\ run'.pc = "idle"
  /\ last'.op \in {"read", "import", "create", "update"}
  /\ Len(last'.calls) > 0
  /\ last'.calls[Len(last'.calls)].api = "Jobs.Get"
  /\ last'.calls[Len(last'.calls)].outcome = "ok"
  /\ run.pc = "idle" => last'.op = "read"

\* The attributes Read starts from, and the job its Get returns.
ReadPrior == IF run.pc = "read" THEN run.d ELSE d

ReadJob == Deref(remote[IdKey(IF run.pc = "read" THEN run.id ELSE d_id)])

\* Read keeps the attribute of every field that is absent behind a guard.
GuardedKept(dat, new, job) ==
  /\ IsNil(job.Location) => new.location = dat.location
  /\ IsNil(job.Properties) =>
       /\ new.compatibility_level = dat.compatibility_level
       /\ new.data_locale = dat.data_locale
       /\ new.events_late_arrival_max_delay_in_seconds =
            dat.events_late_arrival_max_delay_in_seconds
       /\ new.events_out_of_order_max_delay_in_seconds =
            dat.events_out_of_order_max_delay_in_seconds
       /\ new.stream_analytics_cluster_id = dat.stream_analytics_cluster_id
       /\ new.events_out_of_order_policy = dat.events_out_of_order_policy
       /\ new.output_error_policy = dat.output_error_policy
       /\ new.job_id = dat.job_id
       /\ new.streaming_units = dat.streaming_units
       /\ new.transformation_query = dat.transformation_query
  /\ ~IsNil(job.Properties) =>
       LET props == Deref(job.Properties)
       IN  /\ IsNil(props.EventsLateArrivalMaxDelayInSeconds) =>
                new.events_late_arrival_max_delay_in_seconds =
                  dat.events_late_arrival_max_delay_in_seconds
           /\ IsNil(props.EventsOutOfOrderMaxDelayInSeconds) =>
                new.events_out_of_order_max_delay_in_seconds =
                  dat.events_out_of_order_max_delay_in_seconds
           /\ IsNil(props.Cluster) =>
                new.stream_analytics_cluster_id = dat.stream_analytics_cluster_id
           /\ IsNil(props.Transformation) =>
                /\ new.streaming_units = dat.streaming_units
                /\ new.transformation_query = dat.transformation_query
           /\ (~IsNil(props.Transformation)
               /\ (\/ IsNil(Deref(props.Transformation).Properties)
                   \/ IsNil(Deref(Deref(props.Transformation).Properties)
                              .StreamingUnits))) =>
                new.streaming_units = dat.streaming_units

\* Whether the query of a present transformation is absent.
QueryAbsent(props) ==
  /\ ~IsNil(props.Transformation)
  /\ \/ IsNil(Deref(props.Transformation).Properties)
     \/ IsNil(Deref(Deref(props.Transformation).Properties).Query)

\* Read keeps the attribute of the string fields it sets without a guard.
UnguardedKept(dat, new, job) ==
  ~IsNil(job.Properties) =>
    LET props == Deref(job.Properties)
    IN  /\ IsNil(props.DataLocale) => new.data_locale = dat.data_locale
        /\ IsNil(props.JobID) => new.job_id = dat.job_id
        /\ (~IsNil(props.Cluster) /\ IsNil(Deref(props.Cluster).ID)) =>
             new.stream_analytics_cluster_id = dat.stream_analytics_cluster_id
        /\ QueryAbsent(props) => new.transformation_query = dat.transformation_query

\* C6: a Read whose Get returns the job returns success, and every optional
\* field that is absent in the response leaves its attribute in state as it
\* was.
C6_ReadKeepsAbsent ==
  [][ ReadGotJob =>
        /\ last'.result = "ok"
        /\ GuardedKept(ReadPrior, d', ReadJob)
        /\ UnguardedKept(ReadPrior, d', ReadJob) ]_vars

Is2xx(status) == status >= 200 /\ status <= 299

\* C7, as stated: with a parseable identifier, not found yields false and
\* no error, any other status outside 2xx yields an error and no boolean,
\* and every 2xx status yields true; a malformed identifier yields an error
\* before any Get.
C7_ExistsByStatus ==
  ~IsNil(ex.out) =>
    LET o == Deref(ex.out)
    IN  IF IsNil(ParseManagedClusterID(ex.id))
        THEN o.err /\ IsNil(o.value) /\ o.gets = 0
        ELSE /\ o.gets = 1
             /\ ex.get.status = 404 => (o.value = Ptr(FALSE) /\ ~o.err)
             /\ (~Is2xx(ex.get.status) /\ ex.get.status # 404) =>
                  (o.err /\ IsNil(o.value))
             /\ Is2xx(ex.get.status) => (o.value = Ptr(TRUE) /\ ~o.err)

\* C7, amended: with a parseable identifier, a Get that fails with not
\* found yields false and no error, a Get that fails otherwise (a 2xx
\* response that comes with an error included) yields an error and no
\* boolean, and a Get that succeeds yields true exactly when the status is
\* 200 and false for any other status; a malformed identifier yields an
\* error before any Get.
C7_ExistsByGetResult ==
  ~IsNil(ex.out) =>
    LET o == Deref(ex.out)
    IN  IF IsNil(ParseManagedClusterID(ex.id))
        THEN o.err /\ IsNil(o.value) /\ o.gets = 0
        ELSE /\ o.gets = 1
             /\ (ex.get.err /\ ex.get.status = 404) =>
                  (o.value = Ptr(FALSE) /\ ~o.err)
             /\ (ex.get.err /\ ex.get.status # 404) => (o.err /\ IsNil(o.value))
             /\ ~ex.get.err => (o.value = Ptr(ex.get.status = 200) /\ ~o.err)

\* A parseable identifier was checked, the service answered 200 and the
\* check said true.
C7_Witness ==
  /\ ~IsNil(ex.out)
  /\ ~IsNil(ParseManagedClusterID(ex.id))
  /\ ex.get = [status |-> 200, err |-> FALSE]
  /\ Deref(ex.out).value = Ptr(TRUE)

\* A not-found answer that is no error for the operation: the probe of
\* Create and the Get of Read (the last Get of Create and of Update, the
\* only one of Read and of an import).
NotFoundAllowed(op, calls, i) ==
  /\ calls[i].outcome = "notfound"
  /\ calls[i].api = "Jobs.Get"
  /\ op = "update" => i >= 3

FailedCalls(op, calls) ==
  {i \in DOMAIN calls : calls[i].outcome # "ok" /\ ~NotFoundAllowed(op, calls, i)}

\* C8: in every operation, an API error other than the allowed not-found
\* answers ends the operation with an error that carries the resource
\* identifier (the one the handler built, or the persisted one it parsed)
\* and the name of the failing operation; no call follows the failed one.
C8_ApiErrorsAreWrapped ==
  \A i \in FailedCalls(last.op, last.calls) :
    /\ last.result = "error"
    /\ last.err.cause = "api"
    /\ last.err.op # ""
    /\ last.err.id \in {last.addr, last.id}
    /\ last.err.id # <<>>
    /\ i = Len(last.calls)

\* This step ends a handler of the given operation.
Ends(op) ==
  /\ run'.pc = "idle"
  /\ last'.op = op
  /\ IF op = "read" THEN run.pc = "idle" ELSE run.op = op

\* C9: a persisted identifier never changes to another non-empty value;
\* Delete leaves the identifier alone, Update leaves it alone unless its
\* Read finds the job gone and clears it, Read keeps or clears it; and on
\* an identifier that Create has persisted, the identifier Update addresses
\* its calls with is the persisted one.
C9_IdentifierIsStable ==
  [][ /\ d_id # <<>> => d_id' \in {d_id, <<>>}
      /\ Ends("delete") => last'.id = d_id
      /\ Ends("update") =>
           /\ origin = "create" => last'.addr = d_id
           /\ last'.id \in {d_id, <<>>}
           /\ last'.id = <<>> =>
                last'.calls[Len(last'.calls)].outcome = "notfound"
      /\ Ends("read") =>
           /\ last'.id \in {d_id, <<>>}
           /\ last'.id = <<>> => last'.calls[1].outcome = "notfound" ]_vars

\* An Update went through, transformation included, on the identifier
\* Create had persisted.
C9_Witness ==
  /\ last.op = "update"
  /\ last.result = "ok"
  /\ origin = "create"
  /\ d_id # <<>>
  /\ last.addr = d_id
  /\ "Transformations.Update" \in Apis(last.calls)

\* C10: Create/Update ends either in success with the canonical identifier
\* of the job persisted, or in an error; the identifier is persisted only
\* after CreateOrReplace and its wait have both succeeded.
C10_SuccessPersistsIdentifier ==
  last.op \in {"create", "update"} =>
    /\ \/ last.result = "error"
       \/ last.result = "ok" /\ d_id # <<>> /\ d_id = last.addr
    /\ (last.op = "create" /\ d_id # <<>>) =>
         /\ Len(last.calls) >= 3
         /\ last.calls[2].api = "Jobs.CreateOrReplace"
         /\ last.calls[2].outcome = "ok"
         /\ last.calls[3].api = "Future.Wait"
         /\ last.calls[3].outcome = "ok"
====
